---- MODULE Spec2Model ----
(***************************************************************************)
(* The session controller of src/components/LiveInterview.tsx: connection  *)
(* identity (epoch), retry/backoff, teardown and the playback cursor.      *)
(*                                                                         *)
(* A connection id is Math.random().toString(36).substring(7); the model   *)
(* numbers the connect() calls 1, 2, 3, ... (ids are taken to be distinct).*)
(* Every resource an attempt creates (its microphone stream, its two audio *)
(* contexts, its capture processor, its transport session) is named by the *)
(* number of the attempt that created it.  0 stands for null / "".         *)
(*                                                                         *)
(* One action is one run-to-completion step of the JavaScript event loop:  *)
(* a handler from its entry to its return or to its next await.            *)
(***************************************************************************)
EXTENDS Integers, Sequences, FiniteSets, TLC

\* Bounds of the model.
MaxAttempts == 4
BaseAttempts == 2
DeepAttempts == 3
PlayAttempts == 2
MaxMsgs == 2
MaxTime == 2
MaxFrames == 3

\* src/components/LiveInterview.tsx:43
MAX_RETRIES == 3

Attempts == 1..MaxAttempts

VARIABLES
    apiKey,             \* process.env.API_KEY is set
    effectRan,          \* the mount effect has run
    mounted,            \* mountedRef
    curId,              \* currentConnectionIdRef
    connectionState,    \* React state connectionState
    status,             \* React state status
    isConnected,        \* isConnectedRef
    isError,            \* isErrorRef
    retryCount,         \* retryCountRef
    retryTimeout,       \* retryTimeoutRef: the id of a timer, 0 = null
    timers,             \* the setTimeout timers pending
    streamRef,          \* streamRef
    audioContextRef,    \* audioContextRef (output, 24 kHz)
    inputContextRef,    \* inputContextRef (input, 16 kHz)
    inputSourceRef,     \* inputSourceRef
    processorRef,       \* processorRef
    sessionPromiseRef,  \* sessionPromiseRef
    nextStartTime,      \* nextStartTimeRef, the playback cursor
    sources,            \* sourcesRef, the outstanding playback set
    att,                \* the connect() calls: position and isRetry
    sess,               \* the transport sessions ai.live.connect() created
    liveStreams,        \* microphone streams whose tracks are not stopped
    openOut,            \* output audio contexts not closed
    openIn,             \* input audio contexts not closed
    activeProc,         \* processors connected, onaudioprocess installed
    playing,            \* buffer sources started and not stopped
    dec,                \* onmessage calls suspended in decodeAudioData
    closeQ,             \* session.close() continuations queued as microtasks
    now,                \* currentTime of the context in audioContextRef
    nMsgs,              \* server messages delivered so far
    rewound,            \* history: an interrupt of the current epoch found
                        \* the cursor ahead of the clock
    lastEnd,            \* history: where the buffer scheduled last, with no
                        \* interrupt since, ends; -1 when there is none
    isMutedState,       \* the state isMuted, line 14, which the button shows
    isMuted,            \* isMutedRef, line 15
    audioLevel,         \* the displayed level, line 16, in units of 1/100
    mic,                \* the last frame a processor delivered
    deferred,           \* sends chained to a pending handshake promise
    sent,               \* frames passed to session.sendRealtimeInput
    threw               \* the frames whose sendRealtimeInput call threw

ctrlVars == <<curId, connectionState, status, isConnected, isError, retryCount,
              retryTimeout, timers, streamRef, audioContextRef,
              inputContextRef, inputSourceRef, processorRef,
              sessionPromiseRef, nextStartTime, sources>>

platVars == <<liveStreams, openOut, openIn, activeProc, playing>>

histVars == <<rewound, lastEnd>>

micVars == <<isMutedState, isMuted, audioLevel, mic, deferred, sent,
            threw>>

vars == <<apiKey, effectRan, mounted, ctrlVars, platVars, att, sess, dec,
          closeQ, now, nMsgs, histVars, micVars>>

\* The status line, by the message it shows (the counts in the text left out).
St(t, n) == t

(* A transport session: st is "none" (not created), "pending" (created by  *)
(* ai.live.connect, socket not open), "opened" (onopen delivered, promise  *)
(* pending), "resolved" (the caller holds the session), "dead" (rejected,  *)
(* closed by session.close() or closed by the remote end).  erred: an      *)
(* error event was delivered to the live handler.  closeReq: cleanup()     *)
(* chained a close to the pending promise.                                 *)
Session(st, erred, closeReq) == [st |-> st, erred |-> erred, closeReq |-> closeReq]

NoSession == Session("none", FALSE, FALSE)

Dead == Session("dead", FALSE, FALSE)

Init ==
    /\ apiKey \in BOOLEAN
    /\ effectRan = FALSE
    /\ mounted = TRUE
    /\ curId = 0
    /\ connectionState = "connecting"
    /\ status = St("Initializing", 0)
    /\ isConnected = FALSE
    /\ isError = FALSE
    /\ retryCount = 0
    /\ retryTimeout = 0
    /\ timers = {}
    /\ streamRef = 0
    /\ audioContextRef = 0
    /\ inputContextRef = 0
    /\ inputSourceRef = 0
    /\ processorRef = 0
    /\ sessionPromiseRef = 0
    /\ nextStartTime = 0
    /\ sources = {}
    /\ att = [a \in Attempts |-> [pc |-> "idle", isRetry |-> FALSE]]
    /\ sess = [a \in Attempts |-> NoSession]
    /\ liveStreams = {}
    /\ openOut = {}
    /\ openIn = {}
    /\ activeProc = {}
    /\ playing = {}
    /\ dec = {}
    /\ closeQ = {}
    /\ now = 0
    /\ nMsgs = 0
    /\ rewound = FALSE
    /\ lastEnd = -1
    /\ isMutedState = FALSE
    /\ isMuted = FALSE
    /\ audioLevel = 0
    /\ mic = [n |-> 0, rms |-> 0, by |-> 0]
    /\ deferred = {}
    /\ sent = {}
    /\ threw = {}

NumAttempts == Cardinality({a \in Attempts : att[a].pc # "idle"})

-----------------------------------------------------------------------------
(* A handler that writes refs and then calls cleanup() or reaches the      *)
(* catch block hands on the values as it left them: c is the record of     *)
(* those values, Cur the record of the values at the handler's entry.      *)

Cur == [ts |-> timers, sv |-> sess, sRef |-> streamRef,
        ocRef |-> audioContextRef, icRef |-> inputContextRef,
        spRef |-> sessionPromiseRef, ls |-> liveStreams, oo |-> openOut,
        oi |-> openIn]

\* The handler ends without cleanup(): the values are stored as they are.
Keep(c) ==
    /\ timers' = c.ts
    /\ sess' = c.sv
    /\ liveStreams' = c.ls
    /\ openOut' = c.oo
    /\ openIn' = c.oi
    /\ sessionPromiseRef' = c.spRef
    /\ UNCHANGED <<isConnected, retryTimeout, playing, sources,
                   activeProc, closeQ>>

Refs(c) ==
    /\ streamRef' = c.sRef
    /\ audioContextRef' = c.ocRef
    /\ inputContextRef' = c.icRef

(* cleanup(), lines 48-107.  The refs to the stream, the contexts and the  *)
(* nodes are not nulled; only retryTimeoutRef and sessionPromiseRef are.   *)

\* lines 52-55, clearTimeout: a timer that has fired is unaffected.
CleanTimers(c) == {t \in c.ts : t.id # retryTimeout}

\* lines 92-105: currentPromise.then(session => session.close()) on a promise
\* still pending runs when the handshake resolves ...
CleanSess(c) ==
    IF c.spRef # 0 /\ c.sv[c.spRef].st \in {"pending", "opened"}
    THEN [c.sv EXCEPT ![c.spRef].closeReq = TRUE]
    ELSE c.sv

\* ... and on a promise already resolved it runs as the next microtask.
CleanCloseQ(c) ==
    IF c.spRef # 0 /\ c.sv[c.spRef].st = "resolved"
    THEN closeQ \cup {c.spRef}
    ELSE closeQ

cleanup(c) ==
    /\ isConnected' = FALSE
    /\ timers' = CleanTimers(c)
    /\ retryTimeout' = 0
    /\ playing' = playing \ sources
    /\ sources' = {}
    /\ liveStreams' = c.ls \ {c.sRef}
    /\ activeProc' = activeProc \ {processorRef}
    /\ openOut' = c.oo \ {c.ocRef}
    /\ openIn' = c.oi \ {c.icRef}
    /\ sessionPromiseRef' = 0
    /\ sess' = CleanSess(c)
    /\ closeQ' = CleanCloseQ(c)

(* session.close(), line 99.  cleanup() closes a session only when its     *)
(* epoch is superseded or the component is unmounted, so the close event   *)
(* that follows finds the guard of onclose false: the session is Dead.     *)
Closed(s) == Dead

\* The microtask cleanup() queued, lines 96-102: session.close().
RunClose(s) ==
    /\ s \in closeQ
    /\ closeQ' = closeQ \ {s}
    /\ sess' = [sess EXCEPT ![s] = Closed(s)]
    /\ UNCHANGED <<histVars, micVars, apiKey, effectRan, mounted, ctrlVars, platVars, att, dec,
                   now, nMsgs>>

-----------------------------------------------------------------------------
(* connect(isRetry) from its entry to `await getUserMedia`, lines 109-146. *)

\* connect() leaving isErrorRef as the last epoch left it.
KeepError == isError

\* line 127
ClearError == FALSE

\* A connect() that does not look at the key.
KeyNeverMissing == FALSE

\* line 111
KeyMissing == ~apiKey

\* lines 117-119
EntryRetryCount(isRetry) == IF isRetry THEN retryCount ELSE 0

connect(isRetry, c, cap) ==
    IF KeyMissing
    THEN /\ status' = St("ApiKeyMissing", 0)
         /\ connectionState' = "error"
         /\ Keep(c)
         /\ UNCHANGED <<curId, isError, retryCount, streamRef, audioContextRef,
                        inputContextRef, inputSourceRef, processorRef,
                        nextStartTime, att, dec, now, nMsgs>>
    ELSE /\ NumAttempts < cap
         /\ LET id == NumAttempts + 1 IN
            /\ retryCount' = EntryRetryCount(isRetry)
            /\ curId' = id
            /\ cleanup(c)
            /\ connectionState' = "connecting"
            /\ isError' = ClearError
            /\ IF mounted
               THEN /\ status' = IF isRetry THEN St("DisruptedRetrying", retryCount')
                                 ELSE St("RequestingMic", 0)
                    /\ att' = [att EXCEPT ![id] = [pc |-> "gum", isRetry |-> isRetry]]
               ELSE /\ status' = IF isRetry THEN St("DisruptedRetrying", retryCount')
                                 ELSE St("InitAudio", 0)
                    /\ att' = [att EXCEPT ![id] = [pc |-> "done", isRetry |-> FALSE]]
         /\ UNCHANGED <<streamRef, audioContextRef, inputContextRef,
                        inputSourceRef, processorRef, nextStartTime, dec, now,
                        nMsgs>>

\* useEffect, lines 388-390
Mount(cap) ==
    /\ ~effectRan
    /\ closeQ = {}
    /\ effectRan' = TRUE
    /\ mounted' = TRUE
    /\ connect(FALSE, Cur, cap)
    /\ UNCHANGED <<histVars, micVars, apiKey>>

\* The retry button, lines 496-504: rendered while connectionState is 'error'.
ManualConnect(cap) ==
    /\ effectRan /\ mounted
    /\ closeQ = {}
    /\ connectionState = "error"
    /\ connect(FALSE, Cur, cap)
    /\ UNCHANGED <<histVars, micVars, apiKey, effectRan, mounted>>

\* The effect's cleanup, lines 391-394: end().
End ==
    /\ effectRan /\ mounted
    /\ closeQ = {}
    /\ mounted' = FALSE
    /\ cleanup(Cur)
    /\ UNCHANGED <<histVars, micVars, apiKey, effectRan, curId, connectionState, status, isError,
                   retryCount, streamRef, audioContextRef, inputContextRef,
                   inputSourceRef, processorRef, nextStartTime, att, dec, now,
                   nMsgs>>

\* The release steps of cleanup() that may throw.
Fails == {"source", "track", "processor", "outCtx", "inCtx"}

\* The resource the step `fail` releases is there to be released.
CanFail(fail) ==
    CASE fail = "source" -> sources \cap playing # {}
      [] fail = "track" -> streamRef # 0 /\ streamRef \in liveStreams
      [] fail = "processor" -> processorRef # 0 /\ processorRef \in activeProc
      [] fail = "outCtx" -> audioContextRef # 0 /\ audioContextRef \in openOut
      [] fail = "inCtx" -> inputContextRef # 0 /\ inputContextRef \in openIn

(* cleanup(), lines 48-107, when the release step `fail` throws.  stop()   *)
(* of a source (line 58), disconnect() of the processor (lines 69-72) and  *)
(* close() of a context (lines 80, 83) sit in try/catch: the resource is   *)
(* left as it is and cleanup() goes on.  track.stop() (line 64) sits in    *)
(* none: the exception leaves cleanup() and lines 67-106 do not run.       *)
cleanupFailing(fail) ==
    /\ isConnected' = FALSE
    /\ timers' = CleanTimers(Cur)
    /\ retryTimeout' = 0
    /\ sources' = {}
    /\ IF fail = "source"
       THEN \E src \in sources \cap playing :
               playing' = playing \ (sources \ {src})
       ELSE playing' = playing \ sources
    /\ IF fail = "track"
       THEN UNCHANGED <<liveStreams, activeProc, openOut, openIn,
                        sessionPromiseRef, sess, closeQ>>
       ELSE /\ liveStreams' = liveStreams \ {streamRef}
            /\ activeProc' = IF fail = "processor" THEN activeProc
                             ELSE activeProc \ {processorRef}
            /\ openOut' = IF fail = "outCtx" THEN openOut
                          ELSE openOut \ {audioContextRef}
            /\ openIn' = IF fail = "inCtx" THEN openIn
                         ELSE openIn \ {inputContextRef}
            /\ sessionPromiseRef' = 0
            /\ sess' = CleanSess(Cur)
            /\ closeQ' = CleanCloseQ(Cur)

\* The effect's cleanup, lines 391-394, with a release step that throws.
EndFailing(fail) ==
    /\ effectRan /\ mounted
    /\ closeQ = {}
    /\ CanFail(fail)
    /\ mounted' = FALSE
    /\ cleanupFailing(fail)
    /\ UNCHANGED <<histVars, micVars, apiKey, effectRan, curId,
                   connectionState, status, isError, retryCount, streamRef,
                   audioContextRef, inputContextRef, inputSourceRef,
                   processorRef, nextStartTime, att, dec, now, nMsgs>>

\* Timers fire in deadline order: a timer made earlier with a delay no longer
\* than this one's fires first.
CanFire(t) ==
    /\ t \in timers
    /\ \A u \in timers : u.id < t.id => u.delay > t.delay

\* A timer callback that calls connect(true) without looking at mountedRef.
TimerCallbackUnguarded == TRUE

\* lines 334 and 375: if (mountedRef.current) connect(true)
TimerCallbackRuns == mounted

TimerFire(t, cap) ==
    /\ closeQ = {}
    /\ CanFire(t)
    /\ IF TimerCallbackRuns
       THEN connect(TRUE, [Cur EXCEPT !.ts = @ \ {t}], cap)
       ELSE /\ Keep([Cur EXCEPT !.ts = @ \ {t}])
            /\ UNCHANGED <<curId, connectionState, status, isError, retryCount,
                           streamRef, audioContextRef, inputContextRef,
                           inputSourceRef, processorRef, nextStartTime, att,
                           dec, now, nMsgs>>
    /\ UNCHANGED <<histVars, micVars, apiKey, effectRan, mounted>>

-----------------------------------------------------------------------------
(* The catch block of connect(), lines 362-385.  net: the caught value is  *)
(* an Error whose message includes 'Network', 'fetch' or 'Failed to fetch'.*)

\* lines 329 and 372: delay = 1000 * retryCountRef.current, after the ++
RetryDelay(n) == 1000 * n

(* A timer is named by the epoch that made it and the value the retry     *)
(* counter had then; within an epoch the counter only grows, so the names  *)
(* are distinct and ordered as the timers were made.                       *)
TimerId(a, n) == 10 * a + n

NewTimer(a, n) == [id |-> TimerId(a, n), ep |-> a, n |-> n, delay |-> RetryDelay(n)]

\* A catch block that retries a network failure whatever the counter.
CatchRetriesUnbounded(net) == net

\* line 370
CatchRetries(net) == net /\ retryCount < MAX_RETRIES

catchBlock(a, net, c) ==
    IF mounted /\ curId = a
    THEN IF CatchRetries(net)
         THEN /\ retryCount' = retryCount + 1
              /\ status' = St("FailedRetrying", retryCount')
              /\ timers' = c.ts \cup {NewTimer(a, retryCount')}
              /\ retryTimeout' = TimerId(a, retryCount')
              /\ sess' = c.sv
              /\ liveStreams' = c.ls
              /\ openOut' = c.oo
              /\ openIn' = c.oi
              /\ sessionPromiseRef' = c.spRef
              /\ UNCHANGED <<connectionState, isError, isConnected, playing,
                             sources, activeProc, closeQ>>
         ELSE /\ status' = St("ConnectionFailed", 0)
              /\ connectionState' = "error"
              /\ isError' = TRUE
              /\ cleanup(c)
              /\ UNCHANGED retryCount
    ELSE /\ Keep(c)
         /\ UNCHANGED <<status, connectionState, isError, retryCount>>

Done(a) == att' = [att EXCEPT ![a] = [pc |-> "done", isRetry |-> FALSE]]

\* getUserMedia rejects, line 140.
GumReject(a, net) ==
    /\ closeQ = {}
    /\ att[a].pc = "gum"
    /\ catchBlock(a, net, Cur)
    /\ Refs(Cur)
    /\ Done(a)
    /\ UNCHANGED <<histVars, micVars, apiKey, effectRan, mounted, curId, inputSourceRef,
                   processorRef, nextStartTime, dec, now, nMsgs>>

(* connect() after the audio contexts exist, lines 166-360: the output     *)
(* gain node, the mounted check, ai.live.connect() and the ref write.      *)
(* graphOk: createGain()/connect() did not throw.                          *)
NewSession == Session("pending", FALSE, FALSE)

\* A connect() that goes on to open the session after the unmount.
ProceedsUnguarded(a) == TRUE

\* line 170
ProceedsToOpen(a) == mounted

postResume(a, graphOk, net, c) ==
    IF ~graphOk
    THEN /\ catchBlock(a, net, c)
         /\ Refs(c)
         /\ Done(a)
    ELSE IF ~ProceedsToOpen(a)
    THEN /\ Keep(c)
         /\ Refs(c)
         /\ Done(a)
         /\ UNCHANGED <<status, connectionState, isError, retryCount>>
    ELSE /\ status' = IF att[a].isRetry THEN status ELSE St("ConnectingAI", 0)
         /\ Keep([c EXCEPT !.sv[a] = NewSession, !.spRef = a])
         /\ Refs(c)
         /\ att' = [att EXCEPT ![a].pc = "handshake"]
         /\ UNCHANGED <<connectionState, isError, retryCount>>

\* line 148: the re-check after getUserMedia
GumStale(a) == curId # a

(* getUserMedia resolves: connect() from line 148 to its next await.       *)
(* outcome: which AudioContext constructor throws, if any; susp: a context *)
(* is created 'suspended', so that connect() awaits resume().              *)
GumResolve(a, outcome, susp, graphOk, net) ==
    /\ closeQ = {}
    /\ att[a].pc = "gum"
    /\ IF GumStale(a)
       THEN \* the stream is stopped at once
            /\ Done(a)
            /\ UNCHANGED <<ctrlVars, platVars, sess, closeQ, now>>
       ELSE LET c1 == [Cur EXCEPT !.sRef = a, !.ls = @ \cup {a}]
                c2 == [c1 EXCEPT !.ocRef = a, !.oo = @ \cup {a}]
                c3 == [c2 EXCEPT !.icRef = a, !.oi = @ \cup {a}]
            IN  /\ UNCHANGED <<curId, inputSourceRef, processorRef, nextStartTime>>
                /\ CASE outcome = "outFail" ->
                          /\ catchBlock(a, net, c1)
                          /\ Refs(c1)
                          /\ Done(a)
                          /\ UNCHANGED now
                     [] outcome = "inFail" ->
                          /\ catchBlock(a, net, c2)
                          /\ Refs(c2)
                          /\ Done(a)
                          /\ now' = 0
                     [] outcome = "ok" /\ susp ->
                          /\ Keep(c3)
                          /\ Refs(c3)
                          /\ att' = [att EXCEPT ![a].pc = "resume"]
                          /\ now' = 0
                          /\ UNCHANGED <<status, connectionState, isError,
                                         retryCount>>
                     [] outcome = "ok" /\ ~susp ->
                          /\ postResume(a, graphOk, net, c3)
                          /\ now' = 0
    /\ UNCHANGED <<histVars, micVars, apiKey, effectRan, mounted, dec, nMsgs>>

\* The awaited resume() settles, lines 163-164.
ResumeDone(a, ok, graphOk, net) ==
    /\ closeQ = {}
    /\ att[a].pc = "resume"
    /\ IF ok
       THEN postResume(a, graphOk, net, Cur)
       ELSE /\ catchBlock(a, net, Cur)
            /\ Refs(Cur)
            /\ Done(a)
    /\ UNCHANGED <<histVars, micVars, apiKey, effectRan, mounted, curId, inputSourceRef,
                   processorRef, nextStartTime, dec, now, nMsgs>>

-----------------------------------------------------------------------------
(* The transport session's callbacks, lines 203-355.  The environment:     *)
(* onopen comes at most once and before any error or close of the session; *)
(* the handshake promise resolves after onopen, or rejects without it;     *)
(* onerror may come repeatedly; nothing comes after the remote close.      *)

\* A guard that compares the epoch and does not look at mountedRef.
LiveByEpochOnly(s) == curId = s

\* lines 204, 266, 310, 320: the guard every callback starts with
Live(s) == mounted /\ curId = s

\* onopen leaving the retry counter as it is.
OpenKeepsCount == retryCount

\* line 208
OpenResetCount == 0

(* onopen, lines 203-264.  setup: where the capture setup throws, if at    *)
(* all: in createMediaStreamSource (line 216, before any ref is written)   *)
(* or in connect (lines 253-254, after both refs are written).             *)
SessOpen(s, setup) ==
    /\ closeQ = {}
    /\ sess[s].st = "pending" /\ ~sess[s].erred
    /\ sess' = [sess EXCEPT ![s].st = "opened"]
    /\ IF Live(s)
       THEN /\ retryCount' = OpenResetCount
            /\ inputSourceRef' = IF setup = "failSource" THEN inputSourceRef ELSE s
            /\ processorRef' = IF setup = "failSource" THEN processorRef ELSE s
            /\ activeProc' = IF setup = "ok" THEN activeProc \cup {s}
                             ELSE activeProc
            /\ IF setup = "ok"
               THEN /\ status' = St("InProgress", 0)
                    /\ connectionState' = "connected"
                    /\ isConnected' = TRUE
                    /\ UNCHANGED isError
               ELSE \* lines 255-262, reached with isConnectedRef true
                    /\ status' = St("AudioSetupFailed", 0)
                    /\ connectionState' = "error"
                    /\ isConnected' = FALSE
                    /\ isError' = TRUE
       ELSE UNCHANGED <<retryCount, inputSourceRef, processorRef, activeProc,
                        status, connectionState, isConnected, isError>>
    /\ UNCHANGED <<histVars, micVars, apiKey, effectRan, mounted, curId, retryTimeout, timers,
                   streamRef, audioContextRef, inputContextRef,
                   sessionPromiseRef, nextStartTime, sources, att, liveStreams,
                   openOut, openIn, playing, dec, closeQ, now, nMsgs>>

\* A chained send that runs whatever the flags have become.
SendAppliesAlways(ep) == TRUE

\* line 240: the check a send chained to the handshake promise makes when
\* it runs, for a frame the processor of connection ep captured
SendApplies(ep) == isConnected /\ curId = ep

(* The handshake promise resolves: `await sessionPromise` (line 360)       *)
(* returns, the sends chained to the promise run (lines 239-247), and a    *)
(* close that cleanup() chained to the promise runs.                       *)
SessResolve(s) ==
    /\ closeQ = {}
    /\ sess[s].st = "opened"
    /\ sess' = [sess EXCEPT ![s] = IF @.closeReq THEN Closed(s)
                                   ELSE Session("resolved", @.erred, FALSE)]
    /\ Done(s)
    /\ LET mine == {f \in deferred : f.to = s}
       IN  /\ deferred' = deferred \ mine
           /\ sent' = sent \cup {[n |-> f.n, to |-> s] :
                                    f \in {g \in mine : SendApplies(g.ep)}}
           /\ \E th \in SUBSET {f.n : f \in {g \in mine : SendApplies(g.ep)}} :
                  threw' = threw \cup th
    /\ UNCHANGED <<histVars, isMutedState, isMuted, audioLevel, mic, apiKey, effectRan,
                   mounted, ctrlVars, platVars, dec, closeQ, now, nMsgs>>

\* The handshake promise rejects: the catch block, line 362.
SessReject(s, net) ==
    /\ closeQ = {}
    /\ sess[s].st = "pending"
    /\ catchBlock(s, net, [Cur EXCEPT !.sv[s] = Dead])
    /\ Refs(Cur)
    /\ Done(s)
    /\ deferred' = {f \in deferred : f.to # s}
    /\ UNCHANGED <<histVars, isMutedState, isMuted, audioLevel, mic, sent,
                   threw, apiKey, effectRan, mounted, curId, inputSourceRef,
                   processorRef, nextStartTime, dec, now, nMsgs>>

\* An onerror that schedules a retry whatever the counter.
ErrorRetriesForever == TRUE

\* The comparison of line 326 off by one.
ErrorRetriesOnceMore == retryCount <= MAX_RETRIES

\* line 326
ErrorRetries == retryCount < MAX_RETRIES

(* onerror, lines 319-355.  cls: the class the message text falls in.  A   *)
(* session whose epoch is superseded is not followed after its error.      *)
SessError(s, cls) ==
    /\ closeQ = {}
    /\ sess[s].st \in {"pending", "opened", "resolved"}
    /\ IF Live(s)
       THEN /\ sess' = [sess EXCEPT ![s].erred = TRUE]
            /\ isConnected' = FALSE
            /\ isError' = TRUE
            /\ IF ErrorRetries
               THEN /\ retryCount' = retryCount + 1
                    /\ status' = St("Reconnecting", retryCount')
                    /\ timers' = timers \cup {NewTimer(s, retryCount')}
                    /\ retryTimeout' = TimerId(s, retryCount')
                    /\ UNCHANGED connectionState
               ELSE /\ status' = St(cls, 0)
                    /\ connectionState' = "error"
                    /\ UNCHANGED <<retryCount, timers, retryTimeout>>
       ELSE /\ sess' = [sess EXCEPT ![s] = Dead]
            /\ UNCHANGED <<isConnected, isError, retryCount, status, timers,
                           retryTimeout, connectionState>>
    /\ UNCHANGED <<histVars, micVars, apiKey, effectRan, mounted, curId, streamRef,
                   audioContextRef, inputContextRef, inputSourceRef,
                   processorRef, sessionPromiseRef, nextStartTime, sources,
                   att, platVars, dec, closeQ, now, nMsgs>>

\* line 314
CloseEnds == ~isError

(* onclose, lines 308-318: the remote end closes the session.              *)
SessClose(s) ==
    /\ closeQ = {}
    /\ sess[s].st \in {"pending", "opened", "resolved"}
    /\ sess' = [sess EXCEPT ![s] = Dead]
    /\ IF Live(s)
       THEN /\ isConnected' = FALSE
            /\ IF CloseEnds
               THEN /\ status' = St("SessionEnded", 0)
                    /\ connectionState' = "ended"
               ELSE UNCHANGED <<status, connectionState>>
       ELSE UNCHANGED <<isConnected, status, connectionState>>
    /\ UNCHANGED <<histVars, micVars, apiKey, effectRan, mounted, curId, isError, retryCount,
                   retryTimeout, timers, streamRef, audioContextRef,
                   inputContextRef, inputSourceRef, processorRef,
                   sessionPromiseRef, nextStartTime, sources, att, platVars,
                   dec, closeQ, now, nMsgs>>

-----------------------------------------------------------------------------
(* onmessage, lines 265-307.  A message carries audio, the interrupted     *)
(* flag, or both.  The handler suspends in `await decodeAudioData` and its *)
(* continuation schedules the buffer; every buffer lasts one time unit.    *)

BufferDuration == 1

\* A scheduling that takes the clock's time and ignores the cursor.
TakeNow(x, y) == y

\* Math.max, line 275
Max(x, y) == IF x >= y THEN x ELSE y

\* Bookkeeping for the properties: the decodes ds were in flight while an
\* interrupt was handled.
Barged(ds) == {[d EXCEPT !.old = TRUE] : d \in ds}

\* The cursor is ahead of the output clock.
Rewinds(cursor) == audioContextRef # 0 /\ cursor > now

\* An interrupt that stops the sources and leaves the cursor where it is.
interruptKeepsCursor(srcs, play, cursor) ==
    /\ sources' = {}
    /\ playing' = play \ srcs
    /\ nextStartTime' = cursor

\* lines 297-306, reached with the sources srcs and the cursor at cursor
interrupt(srcs, play, cursor) ==
    /\ sources' = {}
    /\ playing' = play \ srcs
    /\ nextStartTime' = IF audioContextRef # 0 THEN now ELSE cursor

SessMessage(s, kind) ==
    /\ closeQ = {}
    /\ sess[s].st = "resolved"
    /\ nMsgs < MaxMsgs
    /\ nMsgs' = nMsgs + 1
    /\ IF ~Live(s)
       THEN UNCHANGED <<nextStartTime, sources, playing, dec, histVars>>
       ELSE IF kind \in {"audio", "both"}
       THEN IF audioContextRef = 0 \/ audioContextRef \notin openOut
            THEN UNCHANGED <<nextStartTime, sources, playing, dec, histVars>>
            ELSE /\ nextStartTime' = Max(nextStartTime, now)
                 /\ dec' = dec \cup {[m |-> nMsgs', ep |-> s,
                                      ctx |-> audioContextRef,
                                      intr |-> (kind = "both"),
                                      old |-> FALSE]}
                 /\ UNCHANGED <<sources, playing, histVars>>
       ELSE /\ interrupt(sources, playing, nextStartTime)
            /\ dec' = Barged(dec)
            /\ rewound' = (rewound \/ Rewinds(nextStartTime))
            /\ lastEnd' = -1
    /\ UNCHANGED <<micVars, apiKey, effectRan, mounted, curId, connectionState, status,
                   isConnected, isError, retryCount, retryTimeout, timers,
                   streamRef, audioContextRef, inputContextRef,
                   inputSourceRef, processorRef, sessionPromiseRef, att, sess,
                   liveStreams, openOut, openIn, activeProc, closeQ, now>>

\* line 278 resumes without a guard: does the continuation schedule?
DecodeSchedules(d, ok) == ok

(* decodeAudioData settles: lines 280-290, then lines 297-306 when the     *)
(* message was also flagged interrupted.  ok: the decode did not throw.    *)
DecodeDone(d, ok) ==
    /\ closeQ = {}
    /\ d \in dec
    /\ dec' = IF d.intr THEN Barged(dec \ {d}) ELSE dec \ {d}
    /\ LET src == [m |-> d.m, ctx |-> d.ctx, start |-> nextStartTime]
           srcs == IF DecodeSchedules(d, ok) THEN sources \cup {src} ELSE sources
           play == IF DecodeSchedules(d, ok) THEN playing \cup {src} ELSE playing
           cursor == IF DecodeSchedules(d, ok)
                     THEN nextStartTime + BufferDuration ELSE nextStartTime
       IN IF d.intr
          THEN /\ interrupt(srcs, play, cursor)
               /\ rewound' = (rewound \/ (Live(d.ep) /\ Rewinds(cursor)))
               /\ lastEnd' = -1
          ELSE /\ sources' = srcs
               /\ playing' = play
               /\ nextStartTime' = cursor
               /\ lastEnd' = IF DecodeSchedules(d, ok) THEN cursor ELSE lastEnd
               /\ UNCHANGED rewound
    /\ UNCHANGED <<micVars, apiKey, effectRan, mounted, curId, connectionState, status,
                   isConnected, isError, retryCount, retryTimeout, timers,
                   streamRef, audioContextRef, inputContextRef,
                   inputSourceRef, processorRef, sessionPromiseRef, att, sess,
                   liveStreams, openOut, openIn, activeProc, closeQ, now,
                   nMsgs>>

\* The 'ended' listener, lines 284-286: a buffer source finished playing.
SourceEnded(src) ==
    /\ closeQ = {}
    /\ src \in playing
    /\ playing' = playing \ {src}
    /\ sources' = sources \ {src}
    /\ UNCHANGED <<histVars, micVars, apiKey, effectRan, mounted, curId, connectionState, status,
                   isConnected, isError, retryCount, retryTimeout, timers,
                   streamRef, audioContextRef, inputContextRef,
                   inputSourceRef, processorRef, sessionPromiseRef,
                   nextStartTime, att, sess, liveStreams, openOut, openIn,
                   activeProc, dec, closeQ, now, nMsgs>>

\* The output context's clock advances while the context is open.
Tick ==
    /\ closeQ = {}
    /\ audioContextRef # 0 /\ audioContextRef \in openOut
    /\ now < MaxTime
    /\ now' = now + 1
    /\ UNCHANGED <<histVars, micVars, apiKey, effectRan, mounted, ctrlVars, platVars, att, sess,
                   dec, closeQ, nMsgs>>

-----------------------------------------------------------------------------
(* The microphone: onaudioprocess, lines 223-251, and toggleMute, lines    *)
(* 398-404.  The level is kept in units of 1/100, which keeps the decay    *)
(* by 0.9 exact for the frames MaxFrames admits.                           *)

\* rms * 100 (line 233) of a frame whose samples are all 1 or -1, in units
\* of 1/100
FullScale == 10000

\* rms * 100 of a frame, in units of 1/100: silence, half scale, full scale
Levels == {0, FullScale \div 2, FullScale}

\* A level that does not decay.
NoDecay(prev) == prev

\* prev * 0.9, line 233
Decay(prev) == (prev * 9) \div 10

\* A guard that does not look at the mute flag.
CaptureIgnoresMute(p) == ~isConnected \/ curId # p

\* line 225: the callback returns at once
CaptureReturns(p) == isMuted \/ ~isConnected \/ curId # p

\* A send error that is reported as a transport error is.
SendErrorReported(throws) ==
    IF throws
    THEN /\ isConnected' = FALSE
         /\ isError' = TRUE
         /\ connectionState' = "error"
         /\ status' = St("Unknown", 0)
         /\ UNCHANGED <<retryCount, retryTimeout, timers>>
    ELSE UNCHANGED <<isConnected, isError, connectionState, status,
                     retryCount, retryTimeout, timers>>

\* lines 241-248: both catch blocks are empty
SwallowSendError(throws) ==
    UNCHANGED <<isConnected, isError, connectionState, status, retryCount,
                retryTimeout, timers>>

(* onaudioprocess of the processor connection p installed delivers a frame *)
(* of level rms.  The send is chained to the promise in sessionPromiseRef: *)
(* on a resolved promise it runs as the next microtask, with the refs as   *)
(* the callback left them; on a pending one it waits; on a session that is *)
(* gone the call is made and throws, or the promise was rejected.  throws: *)
(* sendRealtimeInput, if called, throws.                                   *)
Capture(p, rms, throws) ==
    /\ closeQ = {}
    /\ p \in activeProc
    /\ mic.n < MaxFrames
    /\ mic' = [n |-> mic.n + 1, rms |-> rms, by |-> p]
    /\ IF CaptureReturns(p)
       THEN UNCHANGED <<audioLevel, deferred, sent>>
       ELSE /\ audioLevel' = Max(rms, Decay(audioLevel))
            /\ LET to == sessionPromiseRef
                   st == IF to = 0 THEN "none" ELSE sess[to].st
               IN  CASE st = "none" -> UNCHANGED <<deferred, sent>>
                     [] st = "resolved" ->
                            /\ sent' = sent \cup {[n |-> mic'.n, to |-> to]}
                            /\ UNCHANGED deferred
                     [] st \in {"pending", "opened"} ->
                            /\ deferred' = deferred \cup
                                   {[n |-> mic'.n, ep |-> p, to |-> to]}
                            /\ UNCHANGED sent
                     [] st = "dead" ->
                            /\ \/ /\ throws
                                  /\ sent' = sent \cup {[n |-> mic'.n, to |-> to]}
                               \/ UNCHANGED sent
                            /\ UNCHANGED deferred
    /\ LET failed == throws /\ sent' # sent
       IN  /\ threw' = IF failed THEN threw \cup {mic'.n} ELSE threw
           /\ SwallowSendError(failed)
    /\ UNCHANGED <<histVars, isMutedState, isMuted, apiKey, effectRan, mounted,
                   curId, streamRef, audioContextRef, inputContextRef,
                   inputSourceRef, processorRef, sessionPromiseRef,
                   nextStartTime, sources, platVars, att, sess, dec, closeQ,
                   now, nMsgs>>

\* An updater that returns the new state and leaves the ref as it is.
RefNotSynced(next) == isMuted

\* line 401
SyncRef(next) == next

(* toggleMute, lines 398-404.  The updater passed to setIsMuted writes the *)
(* ref; it runs within the click's task, when setIsMuted is called or in   *)
(* the render that follows the click before any other task.                *)
ToggleMute ==
    /\ closeQ = {}
    /\ mounted
    /\ isMutedState' = ~isMutedState
    /\ isMuted' = SyncRef(isMutedState')
    /\ UNCHANGED <<histVars, audioLevel, mic, deferred, sent, threw, apiKey,
                   effectRan, mounted, ctrlVars, platVars, att, sess, dec,
                   closeQ, now, nMsgs>>

-----------------------------------------------------------------------------
Outcomes == {"ok", "outFail", "inFail"}
Setups == {"ok", "failSource", "failConnect"}
Classes == {"Network", "Unauthorized", "ServiceUnavailable", "Unknown"}
Kinds == {"audio", "interrupt", "both"}

\* The lifecycle: connect, retry, teardown and the transport's events, with
\* at most cap calls of connect().
Lifecycle(cap) ==
    \/ Mount(cap)
    \/ ManualConnect(cap)
    \/ End
    \/ \E s \in Attempts : RunClose(s)
    \/ \E t \in timers : TimerFire(t, cap)
    \/ \E a \in Attempts, net \in BOOLEAN : GumReject(a, net)
    \/ \E a \in Attempts, o \in Outcomes, susp, g, net \in BOOLEAN :
          GumResolve(a, o, susp, g, net)
    \/ \E a \in Attempts, ok, g, net \in BOOLEAN : ResumeDone(a, ok, g, net)
    \/ \E s \in Attempts, setup \in Setups : SessOpen(s, setup)
    \/ \E s \in Attempts : SessResolve(s)
    \/ \E s \in Attempts, net \in BOOLEAN : SessReject(s, net)
    \/ \E s \in Attempts, cls \in Classes : SessError(s, cls)
    \/ \E s \in Attempts : SessClose(s)

\* Playback: the server's messages, the decodes and the output clock.
Playback ==
    \/ \E s \in Attempts, k \in Kinds : SessMessage(s, k)
    \/ \E d \in dec, ok \in BOOLEAN : DecodeDone(d, ok)
    \/ \E src \in playing : SourceEnded(src)
    \/ Tick

Next == Lifecycle(BaseAttempts)

Spec == Init /\ [][Next]_vars

\* The lifecycle with one more call of connect().
NextDeep == Lifecycle(DeepAttempts)

SpecDeep == Init /\ [][NextDeep]_vars

\* The lifecycle together with playback.
NextPlay == Lifecycle(PlayAttempts) \/ Playback

SpecPlay == Init /\ [][NextPlay]_vars

(* Consecutive transport errors: nothing fails locally, and every session  *)
(* gets one error event before it opens, followed by the socket's close.   *)
NextRetry ==
    \/ Mount(MaxAttempts)
    \/ End
    \/ \E t \in timers : TimerFire(t, MaxAttempts)
    \/ \E a \in Attempts, susp \in BOOLEAN : GumResolve(a, "ok", susp, TRUE, FALSE)
    \/ \E a \in Attempts : ResumeDone(a, TRUE, TRUE, FALSE)
    \/ \E s \in Attempts, cls \in Classes :
          sess[s].st = "pending" /\ ~sess[s].erred /\ SessError(s, cls)
    \/ \E s \in Attempts : sess[s].erred /\ SessClose(s)

SpecRetry == Init /\ [][NextRetry]_vars

\* One call of connect(), together with playback.
NextAudio == Lifecycle(1) \/ Playback

SpecAudio == Init /\ [][NextAudio]_vars

(* Playback across a reconnect: two calls of connect(), of which nothing   *)
(* fails locally; a session opens, plays, and ends by an error event or by *)
(* the remote close, and the retry timer or the retry button reconnects.   *)
NextReconnect ==
    \/ Mount(2)
    \/ ManualConnect(2)
    \/ End
    \/ \E s \in Attempts : RunClose(s)
    \/ \E t \in timers : TimerFire(t, 2)
    \/ \E a \in Attempts : GumResolve(a, "ok", FALSE, TRUE, FALSE)
    \/ \E s \in Attempts : SessOpen(s, "ok")
    \/ \E s \in Attempts : SessResolve(s)
    \/ \E s \in Attempts : ~sess[s].erred /\ SessError(s, "Network")
    \/ \E s \in Attempts : SessClose(s)
    \/ Playback

SpecReconnect == Init /\ [][NextReconnect]_vars

\* One call of connect() and playback, with a teardown in which a release
\* step may throw.
NextTeardown == NextAudio \/ \E fail \in Fails : EndFailing(fail)

SpecTeardown == Init /\ [][NextTeardown]_vars

\* The microphone's events.
Mic ==
    \/ ToggleMute
    \/ \E p \in Attempts : \E rms \in Levels : \E throws \in BOOLEAN :
          Capture(p, rms, throws)

\* One call of connect(), together with the microphone.
NextMic == Lifecycle(1) \/ Mic

SpecMic == Init /\ [][NextMic]_vars

(* The microphone across a reconnect: two calls of connect(), of which     *)
(* nothing fails locally; the session opens before or after its handshake  *)
(* promise settles, errs, or is closed by the remote end.                  *)
NextMicReconnect ==
    \/ Mount(2)
    \/ ManualConnect(2)
    \/ End
    \/ \E s \in Attempts : RunClose(s)
    \/ \E t \in timers : TimerFire(t, 2)
    \/ \E a \in Attempts : GumResolve(a, "ok", FALSE, TRUE, FALSE)
    \/ \E s \in Attempts : SessOpen(s, "ok")
    \/ \E s \in Attempts : SessResolve(s)
    \/ \E s \in Attempts : SessError(s, "Network")
    \/ \E s \in Attempts : SessClose(s)
    \/ ToggleMute
    \/ \E p \in Attempts : Capture(p, FullScale, FALSE)

SpecMicReconnect == Init /\ [][NextMicReconnect]_vars

(* The lifecycle under the event loop's guarantees: a timer that is due    *)
(* and not cleared fires, and a queued microtask runs.                     *)
TimersFire == \E t \in timers : TimerFire(t, BaseAttempts)

MicrotasksRun == \E s \in Attempts : RunClose(s)

SpecLive == Spec /\ WF_vars(TimersFire) /\ WF_vars(MicrotasksRun)

(* Attempts that settle.  Every session reports at most one failure, and   *)
(* none once it has opened, and the retry button is not pressed: a run of  *)
(* failures then ends of itself within MaxAttempts calls of connect().     *)

\* getUserMedia of attempt a resolves or rejects.
GumSettles(a) ==
    \/ \E net \in BOOLEAN : GumReject(a, net)
    \/ \E o \in Outcomes, susp, g, net \in BOOLEAN : GumResolve(a, o, susp, g, net)

\* The awaited resume() of attempt a resolves or rejects.
ResumeSettles(a) == \E ok, g, net \in BOOLEAN : ResumeDone(a, ok, g, net)

\* The remote end answers the open request of session s.
RemoteAnswers(s) ==
    /\ sess[s].st = "pending" /\ ~sess[s].erred
    /\ \/ \E setup \in Setups : SessOpen(s, setup)
       \/ \E net \in BOOLEAN : SessReject(s, net)
       \/ SessError(s, "Network")
       \/ SessClose(s)

NextSettle ==
    \/ Mount(MaxAttempts)
    \/ End
    \/ \E s \in Attempts : RunClose(s)
    \/ \E t \in timers : TimerFire(t, MaxAttempts)
    \/ \E a \in Attempts : GumSettles(a)
    \/ \E a \in Attempts : ResumeSettles(a)
    \/ \E s \in Attempts : RemoteAnswers(s)
    \/ \E s \in Attempts : SessResolve(s)
    \/ \E s \in Attempts : (sess[s].st # "pending" \/ sess[s].erred) /\ SessClose(s)

(* The effect runs after the first render, a timer that is due fires, a    *)
(* queued microtask runs, every awaited platform operation settles and the *)
(* remote end answers every open request.                                  *)
SettleFairness ==
    /\ WF_vars(Mount(MaxAttempts))
    /\ WF_vars(\E t \in timers : TimerFire(t, MaxAttempts))
    /\ WF_vars(MicrotasksRun)
    /\ \A a \in Attempts :
          /\ WF_vars(GumSettles(a))
          /\ WF_vars(ResumeSettles(a))
          /\ WF_vars(RemoteAnswers(a))

SpecSettle == Init /\ [][NextSettle]_vars /\ SettleFairness

-----------------------------------------------------------------------------
(* The properties.                                                         *)

NotStarted(a) == att[a].pc = "idle"

Suspended(a) == att[a].pc \in {"gum", "resume", "handshake"}

\* The sessions that are open: created, not closed, not rejected, with no
\* error delivered and no close requested.
OpenSessions ==
    {s \in Attempts : /\ sess[s].st \in {"pending", "opened", "resolved"}
                      /\ ~sess[s].erred
                      /\ ~sess[s].closeReq}

\* A callback or continuation of epoch s runs: a session callback, the part
\* of onmessage after the decode, the catch block after a rejected handshake.
CallbackOf(s) ==
    \/ \E setup \in Setups : SessOpen(s, setup)
    \/ \E k \in Kinds : SessMessage(s, k)
    \/ \E d \in dec, ok \in BOOLEAN : d.ep = s /\ DecodeDone(d, ok)
    \/ SessClose(s)
    \/ \E cls \in Classes : SessError(s, cls)
    \/ \E net \in BOOLEAN : SessReject(s, net)

(* C1: a callback or continuation of an epoch superseded by a later        *)
(* connect() changes no controller state: connection state, status, retry  *)
(* counter, retry timer, connected flag, cursor, playback set, refs.       *)
C1_StaleCallbacksAreNoOps ==
    [][\A s \in Attempts :
          (curId # s /\ CallbackOf(s)) => UNCHANGED ctrlVars]_vars

\* Attempt a resumes from one of the awaits of connect().
Resumes(a) == Suspended(a) /\ att'[a].pc # att[a].pc

(* C2: an attempt that resumes after another connect() or end() happened   *)
(* during its suspension writes no resource reference, creates no audio    *)
(* context and opens no transport session.                                 *)
C2_ResumedStaleAttemptStops ==
    [][\A a \in Attempts :
          (Resumes(a) /\ ~Live(a)) =>
              /\ UNCHANGED <<streamRef, audioContextRef, inputContextRef,
                             sessionPromiseRef, openOut, openIn>>
              /\ sess[a].st = "none" => sess'[a].st = "none"]_vars

(* C3: after end(), once every attempt has returned, no microphone stream  *)
(* is live and no audio context is open.                                   *)
C3_NothingLiveAfterEnd ==
    (~mounted /\ \A a \in Attempts : ~Suspended(a)) =>
        (liveStreams = {} /\ openOut = {} /\ openIn = {})

(* C4: at most one live microphone stream, at most one open transport      *)
(* session and at most one unclosed output context, in every state.        *)
C4_OneOwnerPerResource ==
    /\ Cardinality(liveStreams) <= 1
    /\ Cardinality(OpenSessions) <= 1
    /\ Cardinality(openOut) <= 1

\* The timer the k-th consecutive error leaves pending.
Backoff(k) == [id |-> TimerId(k, k), ep |-> k, n |-> k, delay |-> 1000 * k]

(* C5: when every session errors before it opens, the error of epoch k,    *)
(* k = 1, 2, 3, leaves the counter at k and exactly one timer pending, of  *)
(* delay 1000 * k; the error of epoch 4 leaves state Error with no timer   *)
(* pending; and there is no fifth attempt.                                 *)
C5_ThreeRetriesThenError ==
    /\ \A t \in timers : \E k \in 1..MAX_RETRIES : t = Backoff(k)
    /\ \A k \in Attempts :
          (Live(k) /\ sess[k].erred) =>
              IF k <= MAX_RETRIES
              THEN /\ timers = {Backoff(k)}
                   /\ retryCount = k
                   /\ connectionState = "connecting"
              ELSE /\ timers = {}
                   /\ retryCount = MAX_RETRIES
                   /\ connectionState = "error"
    /\ \A a \in Attempts : a > MAX_RETRIES + 1 => NotStarted(a)

C5_Witness ==
    /\ Live(MAX_RETRIES + 1)
    /\ sess[MAX_RETRIES + 1].erred
    /\ connectionState = "error"
    /\ timers = {}

(* C6: onopen of the current epoch sets the retry counter to 0, and the    *)
(* first error event after it schedules the retry with delay 1000.         *)
C6_OpenResetsBackoff ==
    [][\A s \in Attempts :
          /\ (Live(s) /\ sess[s].st = "pending" /\ sess'[s].st = "opened")
                => retryCount' = 0
          /\ (Live(s) /\ sess[s].st \in {"opened", "resolved"}
                /\ ~sess[s].erred /\ sess'[s].erred)
                => /\ retryCount' = 1
                   /\ \E t \in timers' \ timers :
                         t.delay = 1000 /\ retryTimeout' = t.id]_vars

\* A retry (so the counter was at least 1 at its start) opened, then got an
\* error, and the timer of delay 1000 is pending.
C6_Witness ==
    \E s \in Attempts :
        /\ att[s].isRetry
        /\ sess[s].st = "opened" /\ sess[s].erred
        /\ \E t \in timers : t.ep = s /\ t.delay = 1000

\* State Error reported with the retries used up: by onerror (lines 339-354)
\* or by the catch block (lines 380-383).
TerminalError ==
    /\ connectionState = "error"
    /\ status \in Classes \cup {St("ConnectionFailed", 0)}
    /\ retryCount = MAX_RETRIES

(* C7: in terminal Error with the counter at its maximum no retry timer is *)
(* pending and no step begins an automatic connect(true).                  *)
C7_TerminalErrorStays ==
    [][TerminalError =>
          /\ timers = {}
          /\ curId' # curId => ~att'[curId'].isRetry]_vars

(* C8: once end() has run, no step starts a connection attempt or          *)
(* schedules a retry: a timer that fires then does nothing.                *)
C8_NoRetryAfterEnd ==
    [][~mounted =>
          /\ curId' = curId
          /\ \A a \in Attempts : NotStarted(a) => NotStarted(a)'
          /\ timers' \subseteq timers]_vars

\* After end(), of epoch 1's three timers the third was cancelled and the
\* first has fired: the epoch is still 1.
C8_Witness ==
    /\ ~mounted
    /\ curId = 1
    /\ timers = {NewTimer(1, 2)}

\* An error happened in epoch s: an error event was delivered to its session,
\* or its onopen failed to set up the capture and left state Error.
ErrorInEpoch(s) == sess[s].erred \/ connectionState = "error"

(* C9: the remote close of the current epoch's session, after no error in  *)
(* that epoch, sets state Ended and schedules no retry; after an error in  *)
(* that epoch it does not set Ended.                                       *)
C9_CloseEndsUnlessError ==
    [][\A s \in Attempts :
          (Live(s) /\ SessClose(s)) =>
              IF ErrorInEpoch(s)
              THEN connectionState' # "ended"
              ELSE /\ connectionState' = "ended"
                   /\ UNCHANGED <<timers, retryTimeout, retryCount>>]_vars

\* A later epoch ended by a graceful close.
C9_Witness ==
    /\ connectionState = "ended"
    /\ curId > 1
    /\ mounted

\* A step in which the current attempt a fails locally: before its session
\* exists, it leaves an await of connect() and returns.
LocalFailure(a) ==
    /\ Live(a)
    /\ att[a].pc \in {"gum", "resume"}
    /\ att'[a].pc = "done"

(* C10: a local setup failure of the current epoch sets state Error and    *)
(* schedules no retry.                                                     *)
C10_LocalFailureIsTerminal ==
    [][\A a \in Attempts :
          LocalFailure(a) =>
              (connectionState' = "error" /\ timers' \subseteq timers)]_vars

\* A transport-level failure of the current epoch s: an error event of its
\* session, or its open handshake rejected.
TransportFailure(s) ==
    /\ Live(s)
    /\ \/ \E cls \in Classes : SessError(s, cls)
       \/ \E net \in BOOLEAN : SessReject(s, net)

(* C11: at a transport-level failure of the current epoch a retry is       *)
(* scheduled exactly when the counter is below its maximum, with delay     *)
(* 1000 * (counter + 1), whatever the class of the error.                  *)
C11_RetryIgnoresClass ==
    [][\A s \in Attempts :
          TransportFailure(s) =>
              IF retryCount < MAX_RETRIES
              THEN \E t \in timers' \ timers :
                      /\ t.delay = 1000 * (retryCount + 1)
                      /\ retryTimeout' = t.id
              ELSE timers' \subseteq timers]_vars

(* C12: with the credential missing, connect() leaves state Error, and no  *)
(* attempt ever reaches the microphone, an audio context or the network,   *)
(* and no retry is scheduled.                                              *)
C12_MissingKeyIsError ==
    ~apiKey =>
        /\ effectRan => connectionState = "error"
        /\ \A a \in Attempts : NotStarted(a) /\ sess[a].st = "none"
        /\ liveStreams = {} /\ openOut = {} /\ openIn = {}
        /\ timers = {} /\ retryTimeout = 0

C12_Witness ==
    /\ ~apiKey
    /\ effectRan
    /\ status = St("ApiKeyMissing", 0)
    /\ connectionState = "error"

\* No asynchronous continuation is pending: every attempt has returned, no
\* decode, queued close, chained close or timer is outstanding.
Quiet ==
    /\ \A a \in Attempts : ~Suspended(a) /\ ~sess[a].closeReq
    /\ closeQ = {}
    /\ dec = {}
    /\ timers = {}

\* The sessions not closed: created, and neither rejected nor closed.
UnclosedSessions ==
    {s \in Attempts : sess[s].st \in {"pending", "opened", "resolved"}}

(* C13: after end(), once every pending continuation has run, nothing is   *)
(* live: no microphone stream, no open audio context, no unclosed session, *)
(* no playback source, no retry timer.                                     *)
C13_EndLeavesNothing ==
    (~mounted /\ Quiet) =>
        /\ liveStreams = {}
        /\ openOut = {} /\ openIn = {}
        /\ UnclosedSessions = {}
        /\ playing = {}
        /\ retryTimeout = 0

\* end() runs: the effect's cleanup sets mountedRef false.
EndStep == mounted /\ ~mounted'

(* C14: in the state right after end() the stream of streamRef is stopped, *)
(* every source of sourcesRef is stopped, both contexts are closed, the    *)
(* timer of retryTimeoutRef is cancelled and the session of                *)
(* sessionPromiseRef is closed.                                            *)
C14_EndReleasesAtOnce ==
    [][EndStep =>
          /\ streamRef \notin liveStreams'
          /\ sources' = {} /\ playing' \cap sources = {}
          /\ audioContextRef \notin openOut'
          /\ inputContextRef \notin openIn'
          /\ \A t \in timers' : t.id # retryTimeout
          /\ sessionPromiseRef # 0 => sess'[sessionPromiseRef].st = "dead"]_vars

\* A step in which the interrupt branch of onmessage runs for epoch s: on a
\* message that carries only the flag, or when the decode of a message that
\* carries audio and the flag settles.
InterruptStep(s) ==
    \/ SessMessage(s, "interrupt")
    \/ \E d \in dec : \E ok \in BOOLEAN :
          d.ep = s /\ d.intr /\ DecodeDone(d, ok)

(* C15: an interrupt of the current epoch stops every source of the        *)
(* outstanding set, empties the set and sets the cursor to the clock's     *)
(* time, which is below the cursor it found whenever that cursor was ahead *)
(* of the clock.                                                           *)
C15_InterruptResetsPlayback ==
    [][\A s \in Attempts :
          (Live(s) /\ InterruptStep(s)) =>
              /\ sources' = {}
              /\ playing' \cap sources = {}
              /\ nextStartTime' = now
              /\ nextStartTime > now => nextStartTime' < nextStartTime]_vars

\* An interrupt of the current epoch met a cursor ahead of the clock, and
\* left the set empty and the cursor at the clock's time.
C15_Witness ==
    /\ rewound
    /\ Live(curId) /\ sess[curId].st = "resolved"
    /\ audioContextRef \in openOut
    /\ sources = {} /\ playing = {} /\ dec = {}
    /\ nextStartTime = now

(* C16: a frame whose decode was in flight when an interrupt was handled   *)
(* is dropped: when its decode settles, in the epoch still current, no     *)
(* source of that frame is scheduled or playing.                           *)
C16_BargeInDropsInFlight ==
    [][\A d \in dec : \A ok \in BOOLEAN :
          (d.old /\ Live(d.ep) /\ DecodeDone(d, ok)) =>
              \A src \in sources' \cup playing' : src.m # d.m]_vars

\* The decode of a message without the flag settles and its buffer is
\* scheduled.
ScheduleStep(d) == ~d.intr /\ DecodeDone(d, TRUE)

\* A step that is no interrupt and moves the cursor schedules a buffer.
OnlySchedulingMovesCursor ==
    (/\ \A s \in Attempts : ~InterruptStep(s)
     /\ nextStartTime' # nextStartTime)
        => \E d \in dec : ScheduleStep(d)

\* Audio of the current epoch is received after the clock has passed the
\* cursor: every buffer scheduled so far has played to its end.
ReceivedDry ==
    /\ now > nextStartTime
    /\ \E s \in Attempts :
          Live(s) /\ (SessMessage(s, "audio") \/ SessMessage(s, "both"))

\* With no interrupt between them, a buffer starts exactly where the buffer
\* scheduled before it ends.
C17_NoGapNoOverlap ==
    [][\A d \in dec :
          (ScheduleStep(d) /\ lastEnd # -1) => nextStartTime = lastEnd]_vars

(* C17: every buffer starts where the cursor stands and moves it on by its *)
(* duration.  With no interrupt between them, a buffer starts no earlier   *)
(* than the buffer scheduled before it ends, and later only at a time the  *)
(* clock has reached: audio received after the clock has passed the cursor *)
(* moves the cursor up to the clock's time, and nothing else but a         *)
(* scheduling or an interrupt moves the cursor.                            *)
C17_CursorAdvancesByDuration ==
    [][/\ \A d \in dec :
            ScheduleStep(d) =>
                /\ \E src \in sources' \ sources :
                      src.m = d.m /\ src.start = nextStartTime
                /\ nextStartTime' = nextStartTime + BufferDuration
                /\ lastEnd # -1 =>
                      /\ nextStartTime >= lastEnd
                      /\ nextStartTime > lastEnd => nextStartTime <= now
       /\ ReceivedDry => nextStartTime' = now
       /\ ~ReceivedDry => OnlySchedulingMovesCursor]_vars

\* Two buffers are scheduled back to back.
C17_Witness ==
    \E a \in sources : \E b \in sources :
        /\ a.m # b.m
        /\ b.start = a.start + BufferDuration
        /\ lastEnd = b.start + BufferDuration
        /\ nextStartTime = lastEnd

(* C18: when connect() installs the output context of a new session, the   *)
(* outstanding set is empty and the cursor is not ahead of the new         *)
(* context's clock, so that the first buffer of the session starts at the  *)
(* clock's time.                                                           *)
C18_CursorFreshPerSession ==
    [][(audioContextRef' # audioContextRef /\ audioContextRef' # 0) =>
          /\ sources' = {}
          /\ nextStartTime' <= now']_vars

\* A step in which the processor of connection p delivers a frame.
CaptureStep(p) == mic'.n = mic.n + 1 /\ mic'.by = p

\* The frame delivered in this step, as session.sendRealtimeInput gets it
\* and as it waits on a pending handshake promise.
FrameSent == [n |-> mic'.n, to |-> sessionPromiseRef]
FrameDeferred(p) == [n |-> mic'.n, ep |-> p, to |-> sessionPromiseRef]

(* C19: a frame captured while muted is neither sent nor queued for        *)
(* sending.  A frame captured while not muted, connected and in the        *)
(* current epoch is passed to send() at once when the handshake promise    *)
(* has resolved; while the promise is pending it waits on the promise and  *)
(* is passed to send() when the promise resolves, if the session is still  *)
(* connected and the epoch still current.                                  *)
C19_MuteGatesSend ==
    [][/\ \A p \in Attempts :
            CaptureStep(p) =>
                /\ isMuted => UNCHANGED <<deferred, sent>>
                /\ (~isMuted /\ isConnected /\ curId = p
                            /\ sessionPromiseRef # 0) =>
                      /\ sess[sessionPromiseRef].st = "resolved"
                            => FrameSent \in sent'
                      /\ sess[sessionPromiseRef].st \in {"pending", "opened"}
                            => FrameDeferred(p) \in deferred'
       /\ \A s \in Attempts :
            SessResolve(s) =>
                \A f \in deferred :
                    (f.to = s /\ SendApplies(f.ep))
                        => [n |-> f.n, to |-> s] \in sent']_vars

\* Frame 1 was sent, frame 2 was captured while muted and dropped, and after
\* the unmuting frame 3, the next one, was sent.
C19_Witness ==
    /\ ~isMuted /\ isConnected
    /\ mic.n = 3
    /\ sent = {[n |-> 1, to |-> 1], [n |-> 3, to |-> 1]}
    /\ deferred = {}

(* C20: a frame captured while muted, the session connected and the epoch  *)
(* current, still updates the displayed level to the larger of its own     *)
(* level and 0.9 times the level before.                                   *)
C20_MutedFrameIsMetered ==
    [][\A p \in Attempts :
          (CaptureStep(p) /\ isMuted /\ isConnected /\ curId = p) =>
              audioLevel' = Max(mic'.rms, Decay(audioLevel))]_vars

\* The frame delivered in this step is passed to send() or waits for it.
Handed(p) == FrameSent \in sent' \/ FrameDeferred(p) \in deferred'

(* C21: the flag the capture callback reads is at every moment the mute    *)
(* state last set, and a capture callback decides on the values the mute   *)
(* flag, the connected flag and the epoch have when it runs: with a        *)
(* session to send to, the frame is handed on exactly when the flag is     *)
(* off, the session connected and the epoch the processor's own; after the *)
(* unmount a callback changes nothing.                                     *)
C21_CaptureReadsLatestFlags ==
    [][/\ isMuted = isMutedState /\ isMuted' = isMutedState'
       /\ \A p \in Attempts :
            CaptureStep(p) =>
                /\ (sessionPromiseRef # 0
                        /\ sess[sessionPromiseRef].st
                              \in {"pending", "opened", "resolved"})
                      => (Handed(p) <=>
                             (~isMuted /\ isConnected /\ curId = p))
                /\ ~mounted => UNCHANGED <<audioLevel, deferred, sent>>]_vars

\* Frame 1 was sent; then the user muted, and frame 2, the next one, was
\* dropped.
C21_Witness ==
    /\ isMuted /\ isConnected
    /\ mic.n = 2
    /\ sent = {[n |-> 1, to |-> 1]}
    /\ deferred = {}

\* The controller's connection state and retry state.
ConnVars ==
    <<curId, connectionState, status, isConnected, isError, retryCount,
      retryTimeout, timers>>

(* C22: a capture callback, whether or not the send it makes throws,       *)
(* changes neither the epoch, the connection state, the status, the retry  *)
(* counter nor the retry timer, and leaves the processor installed; after  *)
(* a send has thrown, a frame captured while not muted, connected and in   *)
(* the current epoch is passed to send() as before.                        *)
C22_SendFailureSwallowed ==
    [][\A p \in Attempts :
          CaptureStep(p) =>
              /\ UNCHANGED ConnVars
              /\ p \in activeProc'
              /\ (threw # {} /\ ~isMuted /\ isConnected /\ curId = p
                      /\ sessionPromiseRef # 0
                      /\ sess[sessionPromiseRef].st = "resolved")
                    => FrameSent \in sent']_vars

\* The send of frame 1 threw; the session is still connected, no retry is
\* pending, and frame 2 was passed to send().
C22_Witness ==
    /\ threw = {1}
    /\ mic.n = 2
    /\ sent = {[n |-> 1, to |-> 1], [n |-> 2, to |-> 1]}
    /\ connectionState = "connected" /\ isConnected
    /\ retryCount = 0 /\ timers = {}

\* The session of sessionPromiseRef is closed or its close is on the way.
CloseUnderWay ==
    /\ sessionPromiseRef' = 0
    /\ sessionPromiseRef # 0 =>
          \/ sess'[sessionPromiseRef].st = "dead"
          \/ sess'[sessionPromiseRef].closeReq
          \/ sessionPromiseRef \in closeQ'

(* C23: in a teardown in which one release step throws, every other        *)
(* release step still does its work: the retry timer is cancelled, the     *)
(* sources are stopped, the track is stopped, the processor's handler is   *)
(* removed, both contexts are closed and the session's close is requested. *)
C23_TeardownBestEffort ==
    [][\A fail \in Fails :
          EndFailing(fail) =>
              /\ \A t \in timers' : t.id # retryTimeout
              /\ fail # "source" => playing' \cap sources = {}
              /\ fail # "track" => streamRef \notin liveStreams'
              /\ fail # "processor" => processorRef \notin activeProc'
              /\ fail # "outCtx" => audioContextRef \notin openOut'
              /\ fail # "inCtx" => inputContextRef \notin openIn'
              /\ CloseUnderWay]_vars

\* The callback of this step does not return at line 225.
Metered(p) == CaptureStep(p) /\ ~isMuted /\ isConnected /\ curId = p

(* C24: a metered frame sets the level to the larger of its own level and  *)
(* 0.9 times the level before: a silent frame takes the level to exactly   *)
(* 0.9 times its value, a full-scale frame takes it to full scale, and the *)
(* level never exceeds full scale.                                         *)
C24_AttackAndDecay ==
    [][\A p \in Attempts :
          Metered(p) =>
              /\ audioLevel' = Max(mic'.rms, Decay(audioLevel))
              /\ audioLevel' >= mic'.rms
              /\ mic'.rms = 0 => 10 * audioLevel' = 9 * audioLevel
              /\ mic'.rms = FullScale => audioLevel' = FullScale
              /\ audioLevel' <= FullScale]_vars

\* A full-scale frame and then two silent frames: the level is 0.81 times
\* full scale.
C24_Witness ==
    /\ mic.n = 3 /\ mic.rms = 0
    /\ 100 * audioLevel = 81 * FullScale

(* C25: while the component is mounted, the state is Connected only while  *)
(* the connected flag is set and no retry timer is pending, so that a      *)
(* transport error of the current epoch takes the state out of Connected.  *)
C25_ConnectedMeansConnected ==
    (mounted /\ connectionState = "connected") =>
        /\ isConnected
        /\ \A t \in timers : t.id # retryTimeout

\* The open event of session s is delivered in this step.
OpenStep(s) == sess[s].st = "pending" /\ sess'[s].st = "opened"

C27_ClosedIsTerminal ==
    [][~mounted => UNCHANGED <<connectionState, status>>]_vars

\* getUserMedia resolved after the unmount (the stream it delivered is
\* live) and connect() has returned: the state and the status are those the
\* unmount found.
C27_Witness ==
    /\ ~mounted
    /\ \E a \in Attempts :
          att[a].pc = "done" /\ streamRef = a /\ a \in liveStreams
    /\ connectionState = "connecting"
    /\ status = St("RequestingMic", 0)

(* C28: the retry counter is at least 0 and at most MAX_RETRIES in every   *)
(* state.                                                                  *)
C28_RetryCountBounded == retryCount >= 0 /\ retryCount <= MAX_RETRIES

\* The counter has reached its bound.
C28_Witness == retryCount = MAX_RETRIES /\ timers # {}

(* C29: a step lowers the cursor only by running the interrupt branch,     *)
(* which sets it to the time of the clock of the output context in place;  *)
(* a reconnect does not lower it.                                          *)
C29_CursorMonotone ==
    [][nextStartTime' < nextStartTime =>
          /\ \E s \in Attempts : InterruptStep(s)
          /\ nextStartTime' = now]_vars

\* The second session schedules a buffer behind the one the first session
\* scheduled: the cursor has gone from 1 to 2 across the reconnect.
C29_Witness ==
    /\ curId = 2 /\ audioContextRef = 2
    /\ \E src \in sources : src.ctx = 2 /\ src.start = 1
    /\ nextStartTime = 2
    /\ ~rewound

(* C30: a buffer is started at the larger of the cursor and the clock's    *)
(* time as they stand when source.start is called, so never before the     *)
(* clock's time at that moment, also when the clock advanced during the    *)
(* decode; the cursor then stands one duration after that start and the    *)
(* handle is in the outstanding set.                                       *)
C30_StartsNoEarlierThanClock ==
    [][\A d \in dec :
          ScheduleStep(d) =>
              \E src \in sources' \ sources :
                  /\ src.m = d.m
                  /\ src.start = Max(nextStartTime, now)
                  /\ src.start >= now
                  /\ nextStartTime' = src.start + BufferDuration]_vars

(* C31: the outstanding set holds exactly the handles started and not yet  *)
(* stopped or ended on the output context in place: every handle in the    *)
(* set was added while the component was mounted, belongs to the context   *)
(* in audioContextRef, which is open, and is still playing; and every      *)
(* handle playing on that context is in the set.                           *)
C31_OutstandingSetIsCurrent ==
    /\ \A src \in sources :
          /\ mounted
          /\ src.ctx = audioContextRef
          /\ src.ctx \in openOut
          /\ src \in playing
    /\ \A src \in playing : src.ctx = audioContextRef => src \in sources

\* onerror of the current epoch s has scheduled a retry, and the retry would
\* be one of the calls of connect() the model follows.
RetryScheduled(s) ==
    /\ mounted /\ curId = s
    /\ sess[s].erred
    /\ retryCount <= MAX_RETRIES
    /\ retryTimeout = TimerId(s, retryCount)
    /\ NewTimer(s, retryCount) \in timers
    /\ NumAttempts < BaseAttempts

(* C32: once onerror of the current epoch has scheduled a retry, a new     *)
(* epoch eventually begins unless end() is called: the timer fires, or a   *)
(* manual connect() begins the new epoch before it.                        *)
C32_RetryEventuallyBegins ==
    \A s \in 1..BaseAttempts :
        [](RetryScheduled(s) => <>(curId # s \/ ~mounted))

(* C33: a frame is passed to send(), or queued on the pending handshake    *)
(* promise, only by a capture callback that finds the connected flag true  *)
(* and its own epoch current, and a queued frame is passed to send() only  *)
(* if both still hold when the promise resolves.  Hence a frame is passed  *)
(* to send() only while mounted, in state Connected, with the session of   *)
(* the current epoch open and free of errors, and with no retry of the     *)
(* current epoch pending.                                                  *)
C33_SendOnlyWhileConnected ==
    [][/\ \A p \in Attempts :
            (CaptureStep(p) /\ (sent' # sent \/ deferred' # deferred))
                => (isConnected /\ curId = p)
       /\ \A f \in deferred :
            ([n |-> f.n, to |-> f.to] \in sent' \ sent)
                => (isConnected /\ curId = f.ep)
       /\ sent' # sent =>
            /\ mounted
            /\ connectionState = "connected"
            /\ sess[curId].st \in {"opened", "resolved"}
            /\ ~sess[curId].erred
            /\ retryTimeout = 0
            /\ \A t \in timers : t.ep # curId]_vars

\* Frame 1 was captured by the processor of epoch 1 and waited on the
\* pending handshake promise; epoch 2 began before the promise resolved,
\* and the frame was dropped.
C33_Witness ==
    /\ mic.n = 1 /\ audioLevel > 0
    /\ curId = 2
    /\ sess[1] = Dead
    /\ deferred = {} /\ sent = {}

(* C34: at most one retry timer is pending, and a failure that the current *)
(* epoch's session reports after it has reported one already raises the    *)
(* retry counter no further and schedules no further timer.                *)
C34_OneRetryPerAttempt ==
    [][/\ Cardinality(timers') <= 1
       /\ \A s \in Attempts :
             (TransportFailure(s) /\ sess[s].erred) =>
                 /\ retryCount' = retryCount
                 /\ timers' \subseteq timers]_vars

(* C35: in state Ended no step schedules a retry, begins a new epoch or    *)
(* changes the state; end() leaves the state as it is, and the retry       *)
(* button is not rendered in state Ended.                                  *)
C35_EndedIsStable ==
    [][connectionState = "ended" =>
          /\ connectionState' = "ended"
          /\ curId' = curId
          /\ timers' \subseteq timers]_vars

(* C36: buffers start in the order their frames arrived: when a frame is   *)
(* scheduled with no interrupt since it arrived, every buffer of the       *)
(* outstanding set whose frame arrived after it starts later than it.      *)
C36_ScheduledInArrivalOrder ==
    [][\A d \in dec :
          (ScheduleStep(d) /\ ~d.old) =>
              \A src \in sources :
                  (src.ctx = d.ctx /\ src.m > d.m)
                      => nextStartTime < src.start]_vars

(* C37: with the credential present, the retry button's connect() sets the *)
(* retry counter to 0, leaves no retry timer pending and begins a new      *)
(* epoch, and the retry that the first transport failure of an epoch begun *)
(* that way schedules has a delay of 1000 ms; the connect(true) of a timer *)
(* begins a new epoch with the counter as it was.                          *)
C37_ManualConnectResets ==
    [][/\ (ManualConnect(BaseAttempts) /\ ~KeyMissing) =>
             /\ retryCount' = 0
             /\ timers' = {} /\ retryTimeout' = 0
             /\ curId' # curId
       /\ \A s \in Attempts :
             (TransportFailure(s) /\ ~att[s].isRetry /\ ~sess[s].erred) =>
                 \A t \in timers' \ timers :
                     t.delay = 1000 /\ retryTimeout' = t.id
       /\ \A t \in timers :
             (TimerFire(t, BaseAttempts) /\ mounted /\ ~KeyMissing) =>
                 /\ retryCount' = retryCount
                 /\ curId' # curId]_vars

(* C38: while the component is mounted the state does not stay Connecting: *)
(* from every state in which it is Connecting, a state is reached in which *)
(* it is Connected, Error or Ended, or the component has been unmounted.   *)
C38_AttemptSettles ==
    [](connectionState = "connecting" =>
          <>(connectionState \in {"connected", "error", "ended"} \/ ~mounted))

\* Three retries have failed, each in its own attempt, and the fourth
\* attempt has left state Connecting for state Error.
C38_Witness ==
    /\ mounted /\ curId = MAX_RETRIES + 1
    /\ sess[curId].erred
    /\ retryCount = MAX_RETRIES
    /\ connectionState = "error"

(* C39: while mounted, in state Error or Ended with no retry timer         *)
(* pending, no microphone stream has live tracks and every transport       *)
(* session is closed or has its close requested.                           *)
C39_TerminalStatesReleased ==
    (/\ mounted
     /\ connectionState \in {"error", "ended"}
     /\ timers = {}) =>
        /\ liveStreams = {}
        /\ \A s \in UnclosedSessions : sess[s].closeReq

====
